---- MODULE Spec2Model ----
(***************************************************************************)
(* Model of src/src/system.c (ravenmaster / dpmaster system layer, POSIX   *)
(* build: WIN32 undefined, IPV6_V6ONLY defined).                           *)
(*                                                                         *)
(* Strings that the code scans character by character (address tokens)     *)
(* are sequences of one-character strings.  A NULL pointer to a string is  *)
(* the one-element sequence NULL.  File descriptors are naturals; the      *)
(* descriptor table `fds` is the operating system's view of the process.   *)
(***************************************************************************)
EXTENDS Integers, Sequences, FiniteSets, TLC

\* ---------------------------------------------------------------- bounds
\* Largest number of listen ports handed to Sys_ResolveListenAddresses.
MaxPorts == 3

\* Longest address token handed to Sys_StringToSockaddr on its own.
MaxTokenLen == 4

\* ------------------------------------------------------------- constants
\* Table capacities of system.h (header not part of src/); scaled down.
MAX_LISTEN_ADDRESSES == 2
MAX_LISTEN_SOCKETS == 4

\* sizeof (addr_buff) in Sys_StringToSockaddr
AddrBuffSize == 128

INVALID_SOCKET == -1

NULL == <<"NULL">>

AF_UNSPEC == "AF_UNSPEC"
AF_INET == "AF_INET"
AF_INET6 == "AF_INET6"

\* const sa_family_t addr_families [] = { AF_INET, AF_INET6 };
addr_families == <<AF_INET, AF_INET6>>

DAEMON_STATE_NO == "DAEMON_STATE_NO"
DAEMON_STATE_REQUEST == "DAEMON_STATE_REQUEST"
DAEMON_STATE_EFFECTIVE == "DAEMON_STATE_EFFECTIVE"

STDIN_FILENO == 0
STDOUT_FILENO == 1
STDERR_FILENO == 2

\* ------------------------------------------------------- input alphabets
\* Address tokens a user may declare: a plain name, a bracketed IPv6
\* literal with a port suffix, a name with a port suffix, and a bracketed
\* literal without its closing bracket.
NamePlain == <<"h">>
NameBracket == <<"[", "a", "]", ":", "7">>
NameHostPort == <<"g", ":", "7">>
NameBadBracket == <<"[", "a">>
Names == {NamePlain, NameBracket, NameHostPort, NameBadBracket}

\* The listen ports, in the order of the caller's linked list.
AllPorts == <<"27900", "27901", "27902", "27903", "27904", "27905">>
PortLists == {SubSeq(AllPorts, 1, p) : p \in 1..MaxPorts}

\* Number of listen_socket_t slots of memory the model keeps: the table
\* itself plus the memory behind it that an unchecked write can reach.
MaxEntries == (IF MAX_LISTEN_ADDRESSES > 2 THEN MAX_LISTEN_ADDRESSES ELSE 2) * MaxPorts
MemSlots == IF MaxEntries > MAX_LISTEN_SOCKETS THEN MaxEntries ELSE MAX_LISTEN_SOCKETS

\* Highest file descriptor of the model's descriptor table.
MaxFd == 3 + MemSlots

VARIABLES
    pc,               \* position in the bootstrap sequence
    last_call,        \* name of the last function called
    last_arg,         \* its string argument, if it has one
    ret,              \* its return value
    nb_addresses,
    listen_addresses,
    listen_ports,     \* argument of Sys_ResolveListenAddresses
    nb_sockets,
    listen_sockets,
    oob,              \* a listen_socket_t was written outside listen_sockets
    fds,              \* descriptor table of the process
    created,          \* descriptors returned by socket() in Sys_CreateListenSockets
    close_calls,      \* descriptors passed to close() by Sys_CloseAllSockets
    plan,             \* listen_sockets[0 .. nb_sockets) as Sys_CreateListenSockets found it
    dropped,          \* the compactions made: index, table before, table after
    events,           \* calls made by Sys_CreateListenSockets, in order
    unsupported,      \* address families socket() does not support
    fault,            \* the failing call of Sys_CreateListenSockets, if any
    daemon_state,
    null_device,
    jail_path,
    low_priv_user,
    euid,
    egid,
    root_dir,
    cwd,
    syscalls          \* calls made by Sys_SecurityInit and Sys_SecureInit, in order

vars == <<pc, last_call, last_arg, ret, nb_addresses, listen_addresses, listen_ports,
          nb_sockets, listen_sockets, oob, fds, created, close_calls, plan,
          dropped, events, unsupported, fault, daemon_state, null_device, jail_path,
          low_priv_user, euid, egid, root_dir, cwd, syscalls>>

net_vars == <<nb_addresses, listen_addresses, listen_ports, nb_sockets,
              listen_sockets, oob, created, close_calls, plan, dropped,
              events, unsupported, fault>>

sec_vars == <<daemon_state, null_device, jail_path, low_priv_user, euid, egid,
              root_dir, cwd, syscalls>>

\* ------------------------------------------------------------ data types
\* A zero-filled struct sockaddr_storage / listen_socket_t (static storage
\* and memset both produce it).
ZeroAddr == [ss_family |-> AF_UNSPEC, host |-> NULL, port |-> "0"]

ZeroSocket ==
    [local_addr |-> ZeroAddr, local_addr_len |-> 0, local_addr_name |-> NULL,
     local_addr_name_no_port |-> NULL, optional |-> FALSE, socket |-> 0]

ClosedFd == [kind |-> "closed", family |-> AF_UNSPEC, v6only |-> FALSE,
             v6only_at_bind |-> FALSE, bound |-> ZeroAddr]

TtyFd == [ClosedFd EXCEPT !.kind = "tty"]

NullFd == [ClosedFd EXCEPT !.kind = "null"]

\* ------------------------------------------------------- string helpers
\* strchr: index of the first occurrence of c in s at or after from, 0 if none
RECURSIVE strchr(_, _, _)
strchr(s, c, from) ==
    IF from > Len(s) THEN 0
    ELSE IF s[from] = c THEN from
    ELSE strchr(s, c, from + 1)

\* strrchr: index of the last occurrence of c in s at or after from, 0 if none
RECURSIVE strrchr(_, _, _)
strrchr(s, c, from) ==
    IF from > Len(s) THEN 0
    ELSE LET later == strrchr(s, c, from + 1)
         IN  IF later # 0 THEN later
             ELSE IF s[from] = c THEN from ELSE 0

\* ------------------------------------------------------------ resolution
\* sizeof (struct sockaddr_in) / sizeof (struct sockaddr_in6)
SockaddrLen(family) == IF family = AF_INET6 THEN 28 ELSE 16

\* Sys_BuildSockaddr.  gai is the outcome of getaddrinfo for this call:
\* "fail", or the family of the first address it returns when the hint
\* leaves the family open.  With a family hint only that family is returned.
Sys_BuildSockaddr(addr_name, port_name, addr_family_hint, gai) ==
    IF gai = "fail"
    THEN [ok |-> FALSE, sock_address |-> ZeroAddr, sock_address_len |-> 0]
    ELSE LET family == IF addr_family_hint = AF_UNSPEC THEN gai
                       ELSE addr_family_hint
         IN  [ok |-> TRUE,
              sock_address |-> [ss_family |-> family, host |-> addr_name,
                                port |-> port_name],
              sock_address_len |-> SockaddrLen(family)]

\* Variant: the search for a second colon starts at the first colon
SecondColonStart_AtFirst(first_colon) == first_colon

\* strrchr (first_colon + 1, ':'): where the search for a second colon starts
SecondColonStart(first_colon) == first_colon + 1

\* The scanning part of Sys_StringToSockaddr: which characters of the token
\* are the host, and which family hint the syntax gives.
ParseAddress(address) ==
    IF Len(address) > 0 /\ address[1] = "["
    THEN LET end_bracket == strchr(address, "]", 1)
         IN  IF end_bracket = 0
             THEN [ok |-> FALSE, host |-> <<>>, addr_family |-> AF_UNSPEC]
             ELSE IF end_bracket < Len(address) /\ address[end_bracket + 1] # ":"
             THEN [ok |-> FALSE, host |-> <<>>, addr_family |-> AF_UNSPEC]
             ELSE [ok |-> TRUE, host |-> SubSeq(address, 2, end_bracket - 1),
                   addr_family |-> AF_INET6]
    ELSE LET first_colon == strchr(address, ":", 1)
         IN  IF first_colon = 0
             THEN [ok |-> TRUE, host |-> address, addr_family |-> AF_UNSPEC]
             ELSE LET last_colon == strrchr(address, ":", SecondColonStart(first_colon))
                  IN  IF last_colon = 0
                      THEN [ok |-> TRUE,
                            host |-> SubSeq(address, 1, first_colon - 1),
                            addr_family |-> AF_UNSPEC]
                      ELSE [ok |-> TRUE, host |-> address,
                            addr_family |-> AF_INET6]

\* Sys_StringToSockaddr.  no_port_set tells whether *address_no_port was
\* assigned (it is, before the lookup, once the token passed the scan).
Sys_StringToSockaddr(address, port_name, gai) ==
    LET parsed == ParseAddress(address)
    IN  IF ~parsed.ok \/ Len(parsed.host) >= AddrBuffSize
        THEN [ok |-> FALSE, no_port_set |-> FALSE, address_no_port |-> NULL,
              sock_address |-> ZeroAddr, sock_address_len |-> 0]
        ELSE LET built == Sys_BuildSockaddr(parsed.host, port_name,
                                            parsed.addr_family, gai)
             IN  [ok |-> built.ok, no_port_set |-> TRUE,
                  address_no_port |-> parsed.host,
                  sock_address |-> built.sock_address,
                  sock_address_len |-> built.sock_address_len]

\* Outcome of the k-th getaddrinfo call of a resolution run (k from 1).
GaiOutcome(env, k, name) ==
    IF env.fail_at = k THEN "fail" ELSE env.family_of[name]

ResolveEnvs ==
    [fail_at : 0..MaxEntries, family_of : [Names \cup {NULL} -> {AF_INET, AF_INET6}]]

\* memset (listen_sockets, 0, sizeof (listen_sockets[0]) * count)
MemsetSockets(tab, count) ==
    [j \in DOMAIN tab |-> IF j < count THEN ZeroSocket ELSE tab[j]]

\* Loop nest of the "nothing to resolve" branch, iteration k (from 0) of
\* nb_addr_families * nb_listen_ports: families outer, ports inner.
WildcardFamily_Alternating(k, ports) == addr_families[(k % Len(addr_families)) + 1]

WildcardFamily(k, ports) == addr_families[(k \div Len(ports)) + 1]

WildcardPort(k, ports) == ports[(k % Len(ports)) + 1]

RECURSIVE ResolveWildcards(_, _, _, _)
ResolveWildcards(st, k, ports, env) ==
    IF k >= Len(addr_families) * Len(ports)
    THEN [st EXCEPT !.ok = TRUE]
    ELSE LET built == Sys_BuildSockaddr(NULL, WildcardPort(k, ports),
                                        WildcardFamily(k, ports),
                                        GaiOutcome(env, k + 1, NULL))
             slot == st.nb
         IN  IF ~built.ok
             THEN [st EXCEPT !.ok = FALSE]
             ELSE ResolveWildcards(
                    [st EXCEPT !.tab[slot].local_addr = built.sock_address,
                               !.tab[slot].local_addr_len = built.sock_address_len,
                               !.tab[slot].optional = TRUE,
                               !.oob = @ \/ slot >= MAX_LISTEN_SOCKETS,
                               !.nb = @ + 1],
                    k + 1, ports, env)

\* Loop nest of the declared-addresses branch, iteration k (from 0) of
\* nb_addresses * nb_listen_ports: addresses outer, ports inner.
DeclaredAddress(k, ports) == k \div Len(ports)

DeclaredPort_First(k, ports) == ports[1]

DeclaredPort(k, ports) == ports[(k % Len(ports)) + 1]

RECURSIVE ResolveDeclared(_, _, _, _, _, _)
ResolveDeclared(st, k, nb_addr, addrs, ports, env) ==
    IF k >= nb_addr * Len(ports)
    THEN [st EXCEPT !.ok = TRUE]
    ELSE LET name == addrs[DeclaredAddress(k, ports)].local_addr_name
             res == Sys_StringToSockaddr(name, DeclaredPort(k, ports),
                                         GaiOutcome(env, k + 1, name))
             slot == st.nb
             st1 == IF res.no_port_set
                    THEN [st EXCEPT !.tab[slot].local_addr_name_no_port =
                                        res.address_no_port,
                                    !.oob = @ \/ slot >= MAX_LISTEN_SOCKETS]
                    ELSE st
         IN  IF ~res.ok
             THEN [st1 EXCEPT !.ok = FALSE]
             ELSE ResolveDeclared(
                    [st1 EXCEPT !.tab[slot].local_addr = res.sock_address,
                                !.tab[slot].local_addr_len = res.sock_address_len,
                                !.tab[slot].local_addr_name = name,
                                !.nb = @ + 1],
                    k + 1, nb_addr, addrs, ports, env)

\* Sys_ResolveListenAddresses as a function of the globals it reads.
ResolveListenAddresses(nb_addr, addrs, nb, tab, ports, env) ==
    IF nb_addr = 0
    THEN LET count == Len(addr_families) * Len(ports)
         IN  ResolveWildcards(
               [nb |-> nb, tab |-> MemsetSockets(tab, count),
                oob |-> count > MAX_LISTEN_SOCKETS, ok |-> FALSE],
               0, ports, env)
    ELSE ResolveDeclared([nb |-> nb, tab |-> tab, oob |-> FALSE, ok |-> FALSE],
                         0, nb_addr, addrs, ports, env)

\* --------------------------------------------------------------- binding
\* The environment of one run of Sys_CreateListenSockets: the loop
\* iteration (from 1) and call that fails for a reason other than an
\* unsupported address family.  iter = 0: no such failure.
NoFault == [iter |-> 0, op |-> "none"]

Faults == {NoFault} \cup [iter : 1..MaxEntries, op : {"socket", "setsockopt", "bind"}]

\* lowest descriptor not in use, as socket() and open() allocate it
LowestFreeFd(tbl) ==
    CHOOSE fd \in DOMAIN tbl :
        /\ tbl[fd].kind = "closed"
        /\ \A other \in DOMAIN tbl : tbl[other].kind = "closed" => fd <= other

\* socket (addr_family, SOCK_DGRAM, IPPROTO_UDP)
SocketCall(tbl, addr_family, unsupp, flt, iter) ==
    IF flt.iter = iter /\ flt.op = "socket"
    THEN [sock |-> INVALID_SOCKET, err |-> "EMFILE"]
    ELSE IF addr_family \in unsupp \/ addr_family = AF_UNSPEC
    THEN [sock |-> INVALID_SOCKET, err |-> "NETERR_AFNOSUPPORT"]
    ELSE [sock |-> LowestFreeFd(tbl), err |-> "none"]

\* Sys_CloseSocket: close() of a descriptor that is not open changes nothing
Sys_CloseSocket(tbl, sock) ==
    IF sock \in DOMAIN tbl THEN [tbl EXCEPT ![sock] = ClosedFd] ELSE tbl

\* Sys_CloseAllSockets, from loop index sock_ind on
RECURSIVE Sys_CloseAllSockets(_, _)
Sys_CloseAllSockets(st, sock_ind) ==
    IF sock_ind >= st.nb
    THEN [st EXCEPT !.nb = 0]
    ELSE LET sock == st.tab[sock_ind].socket
         IN  IF sock # -1
             THEN Sys_CloseAllSockets(
                    [st EXCEPT !.fds = Sys_CloseSocket(@, sock),
                               !.closes = Append(@, sock)],
                    sock_ind + 1)
             ELSE Sys_CloseAllSockets(st, sock_ind + 1)

\* memmove (&listen_sockets[dst], &listen_sockets[src], count * sizeof (listen_sockets[0]))
Memmove(tab, dst, src, count) ==
    [j \in DOMAIN tab |->
        IF j >= dst /\ j < dst + count THEN tab[src + (j - dst)] ELSE tab[j]]

\* Number of entries the compaction of Sys_CreateListenSockets moves
ShiftCount(nb, sock_ind) == nb - sock_ind - 2

\* listen_sockets[0 .. nb) as a sequence
TableSeq(tab, nb) == [j \in 1..nb |-> tab[j - 1]]

\* Variant: the option is set on the sockets of the other family
NeedsV6Only_WrongFamily(addr_family) == addr_family = AF_INET

\* if (addr_family == AF_INET6): the sockets that get IPV6_V6ONLY
NeedsV6Only(addr_family) == addr_family = AF_INET6

\* Variant: an unsupported family is forgiven for every entry
IsRecoverable_AnyEntry(err, optional) == err = "NETERR_AFNOSUPPORT"

\* The only creation failure that does not abort the run
IsRecoverable(err, optional) == err = "NETERR_AFNOSUPPORT" /\ optional

\* An entry of the call log of Sys_CreateListenSockets
Event(call, res, ind, listen_sock, sock) ==
    [call |-> call, res |-> res, ind |-> ind, optional |-> listen_sock.optional,
     addr |-> listen_sock.local_addr, sock |-> sock]

\* The for loop of Sys_CreateListenSockets.  st.ind is sock_ind, st.iter
\* counts the iterations made, st.ok is set when the function returns,
\* st.log lists the calls made and what they returned.
RECURSIVE CreateLoop(_, _, _)
CreateLoop(st, unsupp, flt) ==
    IF st.ind >= st.nb
    THEN [st EXCEPT !.ok = TRUE]
    ELSE
    LET iter == st.iter + 1
        listen_sock == st.tab[st.ind]
        addr_family == listen_sock.local_addr.ss_family
        crt == SocketCall(st.fds, addr_family, unsupp, flt, iter)
        crt_sock == crt.sock
    IN
    IF crt_sock = INVALID_SOCKET
    THEN LET failed == [st EXCEPT !.iter = iter,
                                  !.log = Append(@, Event("socket", crt.err, st.ind,
                                                          listen_sock, crt_sock))]
         IN
         IF IsRecoverable(crt.err, listen_sock.optional)
         THEN LET moved == IF st.ind + 1 < st.nb
                           THEN Memmove(st.tab, st.ind, st.ind + 1,
                                        ShiftCount(st.nb, st.ind))
                           ELSE st.tab
              IN  CreateLoop(
                    [failed EXCEPT !.tab = moved,
                                   !.nb = @ - 1,
                                   !.drops = Append(@,
                                       [ind |-> st.ind,
                                        before |-> TableSeq(st.tab, st.nb),
                                        after |-> TableSeq(moved, st.nb - 1)])],
                    unsupp, flt)
         ELSE [Sys_CloseAllSockets(failed, 0) EXCEPT !.ok = FALSE]
    ELSE
    LET opened == [st EXCEPT !.fds[crt_sock] =
                                 [ClosedFd EXCEPT !.kind = "sock",
                                                  !.family = addr_family],
                             !.made = @ \cup {crt_sock},
                             !.iter = iter,
                             !.log = Append(@, Event("socket", "ok", st.ind,
                                                     listen_sock, crt_sock))]
        optfail == NeedsV6Only(addr_family) /\ flt.iter = iter /\ flt.op = "setsockopt"
        opted == IF NeedsV6Only(addr_family)
                 THEN [opened EXCEPT
                         !.fds[crt_sock].v6only = ~optfail,
                         !.log = Append(@, Event("setsockopt",
                                                 IF optfail THEN "fail" ELSE "ok",
                                                 st.ind, listen_sock, crt_sock))]
                 ELSE opened
        bindfail == flt.iter = iter /\ flt.op = "bind"
        bound == [opted EXCEPT
                    !.fds[crt_sock].bound =
                        IF bindfail THEN @ ELSE listen_sock.local_addr,
                    !.log = Append(@, Event("bind",
                                            IF bindfail THEN "fail" ELSE "ok",
                                            st.ind, listen_sock, crt_sock))]
    IN
    IF optfail
    THEN [Sys_CloseAllSockets(opted, 0) EXCEPT !.ok = FALSE]
    ELSE IF bindfail
    THEN [Sys_CloseAllSockets(bound, 0) EXCEPT !.ok = FALSE]
    ELSE CreateLoop(
           [bound EXCEPT !.tab[st.ind].socket = crt_sock,
                         !.log = Append(@, Event("record", "ok", st.ind,
                                                 listen_sock, crt_sock)),
                         !.ind = @ + 1],
           unsupp, flt)

\* Sys_CreateListenSockets as a function of the globals it reads
CreateListenSockets(nb, tab, tbl, unsupp, flt) ==
    CreateLoop([ind |-> 0, iter |-> 0, nb |-> nb, tab |-> tab, fds |-> tbl,
                made |-> {}, closes |-> <<>>, drops |-> <<>>, log |-> <<>>,
                ok |-> FALSE],
               unsupp, flt)

\* The fault of the environment was met by the run
FaultHit(flt, log) ==
    \/ flt = NoFault
    \/ \E e \in 1..Len(log) :
          /\ log[e].call = flt.op
          /\ log[e].res = (IF flt.op = "socket" THEN "EMFILE" ELSE "fail")

\* -------------------------------------------------------------- security
\* The call of Sys_SecurityInit that fails, if any.
SecurityFaults == {"none", "open", "getpwnam", "chroot", "chdir", "setgid", "setuid"}

\* A system call and what it returned
Call(call, res) == [call |-> call, res |-> res]

\* Variant: the user identity is switched before the group identity
PrivilegeSteps_UserFirst == <<"getpwnam", "chroot", "chdir", "setuid", "setgid">>

\* The calls Sys_SecurityInit makes as superuser, in program order; each
\* is made only if all earlier ones succeeded.
PrivilegeSteps == <<"getpwnam", "chroot", "chdir", "setgid", "setuid">>

\* Effect of one successful call on the process
ApplyStep(st, step) ==
    IF step = "chroot" THEN [st EXCEPT !.root_dir = st.jail_path]
    ELSE IF step = "chdir" THEN [st EXCEPT !.cwd = "/"]
    ELSE IF step = "setgid" THEN [st EXCEPT !.egid = st.low_priv_user]
    ELSE IF step = "setuid" THEN [st EXCEPT !.euid = st.low_priv_user]
    ELSE st

RECURSIVE RunPrivilegeSteps(_, _, _, _)
RunPrivilegeSteps(st, steps, k, flt) ==
    IF k > Len(steps)
    THEN [st EXCEPT !.ok = TRUE]
    ELSE IF flt = steps[k]
    THEN [st EXCEPT !.log = Append(@, Call(steps[k], "fail")), !.ok = FALSE]
    ELSE RunPrivilegeSteps(
           [ApplyStep(st, steps[k]) EXCEPT !.log = Append(@, Call(steps[k], "ok"))],
           steps, k + 1, flt)

\* Variant: the null device is opened once the daemon is effective
WantsNullDevice_WhenEffective(state) == state = DAEMON_STATE_EFFECTIVE

\* if (daemon_state == DAEMON_STATE_REQUEST): /dev/null has to be opened
WantsNullDevice(state) == state = DAEMON_STATE_REQUEST

\* Variant: the privilege drop is run whoever the effective user is
IsSuperuser_Anyone(uid) == TRUE

\* if (geteuid () == 0)
IsSuperuser(uid) == uid = "root"

\* Variant: the result of open is not tested
OpenFailed_Ignored(fd) == FALSE

\* if (null_device == -1): open ("/dev/null", O_RDWR, 0) failed
OpenFailed(fd) == fd = -1

\* Sys_SecurityInit as a function of the process state it reads.  st.log
\* is the sequence of system calls made so far.
SecurityInit(st, flt) ==
    LET wantNull == WantsNullDevice(st.daemon_state)
        fd == LowestFreeFd(st.fds)
        afterOpen ==
            IF ~wantNull THEN st
            ELSE IF flt = "open"
            THEN [st EXCEPT !.null_device = -1,
                            !.log = Append(@, Call("open", "fail"))]
            ELSE [st EXCEPT !.null_device = fd,
                            !.fds[fd] = NullFd,
                            !.log = Append(@, Call("open", "ok"))]
        checked == [afterOpen EXCEPT !.log = Append(@, Call("geteuid", st.euid))]
    IN  IF wantNull /\ OpenFailed(afterOpen.null_device)
        THEN [afterOpen EXCEPT !.ok = FALSE]
        ELSE IF IsSuperuser(st.euid)
        THEN RunPrivilegeSteps(checked, PrivilegeSteps, 1, flt)
        ELSE [checked EXCEPT !.ok = TRUE]

\* Variant: the arguments of dup2 are exchanged
Dup2_Swapped(tbl, oldfd, newfd) == [tbl EXCEPT ![oldfd] = tbl[newfd]]

\* dup2 (null_device, fd)
Dup2(tbl, oldfd, newfd) == [tbl EXCEPT ![newfd] = tbl[oldfd]]

\* ----------------------------------------------------------------- state
Init ==
    /\ pc = "cmdline"
    /\ last_call = "none"
    /\ last_arg = <<>>
    /\ ret = TRUE
    /\ nb_addresses = 0
    /\ listen_addresses = [j \in 0..(MAX_LISTEN_ADDRESSES - 1) |-> [local_addr_name |-> NULL]]
    /\ listen_ports = <<>>
    /\ nb_sockets = 0
    /\ listen_sockets = [j \in 0..(MemSlots - 1) |-> ZeroSocket]
    /\ oob = FALSE
    /\ fds = [fd \in 0..MaxFd |-> IF fd <= STDERR_FILENO THEN TtyFd ELSE ClosedFd]
    /\ created = {}
    /\ close_calls = <<>>
    /\ plan = <<>>
    /\ dropped = <<>>
    /\ events = <<>>
    /\ unsupported \in SUBSET {AF_INET, AF_INET6}
    /\ fault = NoFault
    /\ daemon_state = DAEMON_STATE_NO
    /\ null_device = -1
    /\ jail_path = "/var/empty/"
    /\ low_priv_user = "nobody"
    /\ euid \in {"root", "user"}
    /\ egid = euid
    /\ root_dir = "/"
    /\ cwd = "start"
    /\ syscalls = <<>>

\* ------------------------------------------------------------ operations
\* Variant: the daemon option makes the daemon effective at once
DaemonOptionState_Effective == DAEMON_STATE_EFFECTIVE

\* daemon_state = DAEMON_STATE_REQUEST: the state the daemon option sets
DaemonOptionState == DAEMON_STATE_REQUEST

\* Sys_Cmdline_Option
Sys_Cmdline_Option(opt_name, param) ==
    /\ pc = "cmdline"
    /\ daemon_state' = IF opt_name = "daemon" THEN DaemonOptionState
                       ELSE daemon_state
    /\ jail_path' = IF opt_name = "jail-path" THEN param ELSE jail_path
    /\ low_priv_user' = IF opt_name = "user" THEN param ELSE low_priv_user
    /\ last_call' = "Sys_Cmdline_Option"
    /\ last_arg' = <<>>
    /\ ret' = TRUE
    /\ UNCHANGED <<pc, fds, null_device, euid, egid, root_dir, cwd, syscalls>>
    /\ UNCHANGED net_vars

\* Variant: the capacity test admits one name too many
HasCapacity_OffByOne(nb_addr) == nb_addr <= MAX_LISTEN_ADDRESSES

\* if (nb_addresses < MAX_LISTEN_ADDRESSES)
HasCapacity(nb_addr) == nb_addr < MAX_LISTEN_ADDRESSES

\* Sys_DeclareListenAddress
Sys_DeclareListenAddress(local_addr_name) ==
    /\ pc = "cmdline"
    /\ last_call' = "Sys_DeclareListenAddress"
    /\ last_arg' = local_addr_name
    /\ IF HasCapacity(nb_addresses)
       THEN /\ listen_addresses' =
                 [listen_addresses EXCEPT ![nb_addresses] =
                      [local_addr_name |-> local_addr_name]]
            /\ nb_addresses' = nb_addresses + 1
            /\ ret' = TRUE
       ELSE /\ UNCHANGED <<listen_addresses, nb_addresses>>
            /\ ret' = FALSE
    /\ UNCHANGED <<pc, fds, listen_ports, nb_sockets, listen_sockets, oob,
                   created, close_calls, plan, dropped, events, unsupported,
                   fault>>
    /\ UNCHANGED sec_vars

\* Sys_UnsecureInit (nothing to do outside WIN32)
Sys_UnsecureInit ==
    /\ pc = "cmdline"
    /\ pc' = "preinit"
    /\ last_call' = "Sys_UnsecureInit"
    /\ last_arg' = <<>>
    /\ ret' = TRUE
    /\ UNCHANGED fds
    /\ UNCHANGED net_vars
    /\ UNCHANGED sec_vars

\* Sys_ResolveListenAddresses.  A write behind the end of listen_sockets is
\* undefined: the process either goes on with the neighbouring memory
\* overwritten, or is killed.
Sys_ResolveListenAddresses(ports, env) ==
    /\ pc = "preinit"
    /\ LET r == ResolveListenAddresses(nb_addresses, listen_addresses,
                                       nb_sockets, listen_sockets, ports, env)
       IN  /\ listen_ports' = ports
           /\ last_call' = "Sys_ResolveListenAddresses"
           /\ last_arg' = <<>>
           /\ \/ /\ nb_sockets' = r.nb
                 /\ listen_sockets' = r.tab
                 /\ oob' = r.oob
                 /\ ret' = r.ok
                 /\ pc' = IF r.ok THEN "resolved" ELSE "failed"
              \/ /\ r.oob
                 /\ pc' = "crashed"
                 /\ UNCHANGED <<nb_sockets, listen_sockets, oob, ret>>
    /\ UNCHANGED <<nb_addresses, listen_addresses, fds, created, close_calls,
                   plan, dropped, events, unsupported, fault>>
    /\ UNCHANGED sec_vars

\* Sys_CreateListenSockets
Sys_CreateListenSockets(flt) ==
    /\ pc = "resolved"
    /\ LET r == CreateListenSockets(nb_sockets, listen_sockets, fds,
                                    unsupported, flt)
       IN  /\ FaultHit(flt, r.log)
           /\ events' = r.log
           /\ nb_sockets' = r.nb
           /\ listen_sockets' = r.tab
           /\ fds' = r.fds
           /\ created' = r.made
           /\ close_calls' = r.closes
           /\ dropped' = r.drops
           /\ ret' = r.ok
           /\ pc' = IF r.ok THEN "bound" ELSE "failed"
    /\ plan' = TableSeq(listen_sockets, nb_sockets)
    /\ fault' = flt
    /\ last_call' = "Sys_CreateListenSockets"
    /\ last_arg' = <<>>
    /\ UNCHANGED <<nb_addresses, listen_addresses, listen_ports, oob, unsupported>>
    /\ UNCHANGED sec_vars

\* Sys_SecurityInit
Sys_SecurityInit(flt) ==
    /\ pc = "bound"
    /\ LET r == SecurityInit(
                  [daemon_state |-> daemon_state, null_device |-> null_device,
                   fds |-> fds, jail_path |-> jail_path,
                   low_priv_user |-> low_priv_user, euid |-> euid,
                   egid |-> egid, root_dir |-> root_dir, cwd |-> cwd,
                   log |-> syscalls, ok |-> FALSE],
                  flt)
       IN  /\ flt = "none" \/ Call(flt, "fail") \in {r.log[k] : k \in 1..Len(r.log)}
           /\ null_device' = r.null_device
           /\ fds' = r.fds
           /\ euid' = r.euid
           /\ egid' = r.egid
           /\ root_dir' = r.root_dir
           /\ cwd' = r.cwd
           /\ syscalls' = r.log
           /\ ret' = r.ok
           /\ pc' = IF r.ok THEN "secured" ELSE "failed"
    /\ last_call' = "Sys_SecurityInit"
    /\ last_arg' = <<>>
    /\ UNCHANGED <<daemon_state, jail_path, low_priv_user>>
    /\ UNCHANGED net_vars

\* Variant: a failed daemonization leaves the request pending
DaemonFailureState_Pending == DAEMON_STATE_REQUEST

\* daemon_state = DAEMON_STATE_NO: the state a failed daemonization sets
DaemonFailureState == DAEMON_STATE_NO

\* Sys_SecureInit.  daemon_ok is the outcome of daemon (0, 1).
Sys_SecureInit(daemon_ok) ==
    /\ pc = "secured"
    /\ last_call' = "Sys_SecureInit"
    /\ last_arg' = <<>>
    /\ IF daemon_state = DAEMON_STATE_REQUEST
       THEN IF ~daemon_ok
            THEN /\ daemon_state' = DaemonFailureState
                 /\ syscalls' = Append(syscalls, Call("daemon", IF daemon_ok THEN "ok" ELSE "fail"))
                 /\ ret' = FALSE
                 /\ pc' = "failed"
                 /\ UNCHANGED <<fds, null_device, cwd>>
            ELSE IF null_device = -1
            THEN \* assert (null_device != -1)
                 /\ pc' = "crashed"
                 /\ syscalls' = Append(syscalls, Call("daemon", IF daemon_ok THEN "ok" ELSE "fail"))
                 /\ cwd' = "/"
                 /\ UNCHANGED <<fds, null_device, daemon_state, ret>>
            ELSE /\ fds' = Sys_CloseSocket(
                             Dup2(Dup2(Dup2(fds, null_device, STDIN_FILENO),
                                       null_device, STDOUT_FILENO),
                                  null_device, STDERR_FILENO),
                             null_device)
                 /\ null_device' = -1
                 /\ daemon_state' = DAEMON_STATE_EFFECTIVE
                 /\ syscalls' = syscalls \o <<Call("daemon", "ok"), Call("dup2", "ok"),
                                           Call("dup2", "ok"), Call("dup2", "ok"),
                                           Call("close", "ok")>>
                 /\ cwd' = "/"
                 /\ ret' = TRUE
                 /\ pc' = "running"
       ELSE /\ daemon_ok
            /\ ret' = TRUE
            /\ pc' = "running"
            /\ UNCHANGED <<fds, null_device, daemon_state, syscalls, cwd>>
    /\ UNCHANGED <<jail_path, low_priv_user, euid, egid, root_dir>>
    /\ UNCHANGED net_vars

Next ==
    \/ \E opt_name \in {"daemon", "jail-path", "user"} :
           Sys_Cmdline_Option(opt_name,
                              IF opt_name = "jail-path" THEN "/jail/"
                              ELSE IF opt_name = "user" THEN "master" ELSE "")
    \/ \E name \in Names : Sys_DeclareListenAddress(name)
    \/ Sys_UnsecureInit
    \/ \E ports \in PortLists, env \in ResolveEnvs :
           Sys_ResolveListenAddresses(ports, env)
    \/ \E flt \in Faults : Sys_CreateListenSockets(flt)
    \/ \E flt \in SecurityFaults : Sys_SecurityInit(flt)
    \/ \E daemon_ok \in BOOLEAN : Sys_SecureInit(daemon_ok)

Spec == Init /\ [][Next]_vars

\* ------------------------------------------- Sys_StringToSockaddr alone
\* The characters the scan of Sys_StringToSockaddr tells apart, and one
\* that it does not.
TokenChars == {"[", "]", ":", "a"}

Tokens == UNION {[1..n -> TokenChars] : n \in 0..MaxTokenLen}

\* The port_name argument: the listen port of the caller
TokenPorts == {<<"9">>}

ParseInit ==
    /\ pc = "parse"
    /\ last_call = "none"
    /\ last_arg \in Tokens
    /\ ret = TRUE
    /\ nb_addresses = 0
    /\ listen_addresses = [j \in 0..(MAX_LISTEN_ADDRESSES - 1) |-> [local_addr_name |-> NULL]]
    /\ listen_ports = <<>>
    /\ nb_sockets = 0
    /\ listen_sockets = [j \in 0..(MemSlots - 1) |-> ZeroSocket]
    /\ oob = FALSE
    /\ fds = [fd \in 0..MaxFd |-> IF fd <= STDERR_FILENO THEN TtyFd ELSE ClosedFd]
    /\ created = {}
    /\ close_calls = <<>>
    /\ plan = <<>>
    /\ dropped = <<>>
    /\ events = <<>>
    /\ unsupported = {}
    /\ fault = NoFault
    /\ daemon_state = DAEMON_STATE_NO
    /\ null_device = -1
    /\ jail_path = "/var/empty/"
    /\ low_priv_user = "nobody"
    /\ euid = "user"
    /\ egid = euid
    /\ root_dir = "/"
    /\ cwd = "start"
    /\ syscalls = <<>>

\* One call Sys_StringToSockaddr (last_arg, port_name, &listen_sockets[0]
\* .local_addr, ..., &listen_sockets[0].local_addr_name_no_port).  events
\* receives the arguments of the getaddrinfo call it ends with, if it gets
\* that far.
StringToSockaddrCall(port_name, gai) ==
    /\ pc = "parse"
    /\ LET res == Sys_StringToSockaddr(last_arg, port_name, gai)
           parsed == ParseAddress(last_arg)
       IN  /\ ret' = res.ok
           /\ listen_sockets' =
                 [listen_sockets EXCEPT
                    ![0].local_addr_name_no_port =
                        IF res.no_port_set THEN res.address_no_port ELSE @,
                    ![0].local_addr = IF res.ok THEN res.sock_address ELSE @,
                    ![0].local_addr_len = IF res.ok THEN res.sock_address_len ELSE @]
           /\ events' =
                 IF res.no_port_set
                 THEN <<[call |-> "getaddrinfo", addr_name |-> parsed.host,
                         port_name |-> port_name, hint |-> parsed.addr_family,
                         res |-> gai]>>
                 ELSE <<>>
    /\ pc' = "parsed"
    /\ last_call' = "Sys_StringToSockaddr"
    /\ UNCHANGED <<last_arg, nb_addresses, listen_addresses, listen_ports,
                   nb_sockets, oob, fds, created, close_calls, plan, dropped,
                   unsupported, fault>>
    /\ UNCHANGED sec_vars

ParseNext ==
    \E port_name \in TokenPorts, gai \in {"fail", AF_INET, AF_INET6} :
        StringToSockaddrCall(port_name, gai)

ParseSpec == ParseInit /\ [][ParseNext]_vars

\* ---------------------------------------------------------------- claims
CreateReturned == last_call = "Sys_CreateListenSockets"

ResolveSucceeded == last_call = "Sys_ResolveListenAddresses" /\ pc = "resolved"

\* s without its i-th element (i from 1)
RemoveAt(s, i) == SubSeq(s, 1, i - 1) \o SubSeq(s, i + 1, Len(s))

\* C1: when Sys_CreateListenSockets returns failure, every descriptor that
\* socket() returned during the run has been closed, the one of the entry
\* whose setsockopt or bind failed included.
C1_NoSocketLeftOpenOnFailure ==
    (CreateReturned /\ ret = FALSE) =>
        \A fd \in created : fds[fd].kind = "closed"

\* C2: every drop of an unsupported optional entry at index i leaves the
\* table equal to the table before with exactly entry i removed and the
\* other entries in their order; a run without any other failure then
\* succeeds with the plan minus the unsupported optional entries, all bound.
C2_DropRemovesExactlyEntry ==
    CreateReturned =>
        /\ \A d \in 1..Len(dropped) :
              dropped[d].after = RemoveAt(dropped[d].before, dropped[d].ind + 1)
        /\ (fault = NoFault /\ \A j \in 1..Len(plan) :
                plan[j].local_addr.ss_family \in unsupported => plan[j].optional)
           => /\ ret = TRUE
              /\ LET kept == SelectSeq(plan,
                                 LAMBDA e : e.local_addr.ss_family \notin unsupported)
                 IN  /\ nb_sockets = Len(kept)
                     /\ \A j \in 1..Len(kept) :
                           /\ listen_sockets[j - 1].local_addr = kept[j].local_addr
                           /\ listen_sockets[j - 1].socket \in created

\* C3: with an empty registry, one of the two families unsupported and no
\* other failure, Sys_CreateListenSockets succeeds and leaves exactly the
\* wildcard entries of the supported family, one per port in port order,
\* each with a bound socket.
C3_SingleFamilyFallback ==
    (CreateReturned /\ nb_addresses = 0 /\ fault = NoFault
        /\ Cardinality(unsupported) = 1) =>
        /\ ret = TRUE
        /\ nb_sockets = Len(listen_ports)
        /\ \A j \in 1..Len(listen_ports) :
              LET e == listen_sockets[j - 1]
              IN  /\ e.local_addr.ss_family \in {AF_INET, AF_INET6} \ unsupported
                  /\ e.local_addr.host = NULL
                  /\ e.local_addr.port = listen_ports[j]
                  /\ e.socket \in created
                  /\ fds[e.socket].kind = "sock"
                  /\ fds[e.socket].bound = e.local_addr

\* A call of the run failed otherwise than as an unsupported-family
\* creation failure of an optional entry.
FatalEvent(e) ==
    \/ e.call = "bind" /\ e.res = "fail"
    \/ e.call = "setsockopt" /\ e.res = "fail"
    \/ e.call = "socket" /\ e.res # "ok" /\ ~e.optional
    \/ e.call = "socket" /\ e.res = "EMFILE"

\* C4: Sys_CreateListenSockets returns failure with nb_sockets = 0 whenever
\* a bind fails, socket creation fails for a non-optional entry, or socket
\* creation fails for an optional entry otherwise than by an unsupported
\* family; when the only failures are unsupported-family creation failures
\* of optional entries it returns success.
C4_FatalFailuresRollBack ==
    CreateReturned =>
        IF \E k \in 1..Len(events) : FatalEvent(events[k])
        THEN ret = FALSE /\ nb_sockets = 0 /\ pc = "failed"
        ELSE ret = TRUE

C4_Witness ==
    /\ CreateReturned
    /\ ret = FALSE
    /\ \E k \in 1..Len(events) :
          /\ events[k].call = "bind" /\ events[k].res = "fail"
          /\ events[k].optional
          /\ events[k].ind = 1
    /\ \E k \in 1..Len(events) :
          events[k].call = "socket" /\ events[k].res = "NETERR_AFNOSUPPORT"

\* The calls of Sys_SecurityInit's superuser branch, as logged
PrivilegeCalls ==
    SelectSeq(syscalls,
              LAMBDA c : c.call \in {"getpwnam", "chroot", "chdir", "setgid", "setuid"})

WasSuperuser == \E k \in 1..Len(syscalls) : syscalls[k] = Call("geteuid", "root")

\* C5: as superuser Sys_SecurityInit calls getpwnam, chroot, chdir, setgid,
\* setuid in exactly this order, each only after all earlier ones succeeded;
\* it returns success only if all five succeeded, and a failing call is the
\* last one made.
C5_PrivilegeDropOrder ==
    LET order == <<"getpwnam", "chroot", "chdir", "setgid", "setuid">>
        calls == PrivilegeCalls
    IN  /\ Len(calls) <= Len(order)
        /\ \A k \in 1..Len(calls) :
              /\ calls[k].call = order[k]
              /\ k < Len(calls) => calls[k].res = "ok"
        /\ (euid = low_priv_user => egid = low_priv_user)
        /\ (cwd = "/" /\ last_call = "Sys_SecurityInit" => root_dir = jail_path)
        /\ (last_call = "Sys_SecurityInit" /\ WasSuperuser) =>
              /\ Len(calls) >= 1
              /\ ret = (Len(calls) = Len(order) /\ calls[Len(order)].res = "ok")
              /\ ret = FALSE => calls[Len(calls)].res = "fail"
        /\ (last_call = "Sys_SecurityInit" /\ ~WasSuperuser) => Len(calls) = 0

C5_Witness ==
    /\ last_call = "Sys_SecurityInit"
    /\ WasSuperuser
    /\ ret = FALSE
    /\ Len(PrivilegeCalls) = 4
    /\ PrivilegeCalls[4] = Call("setgid", "fail")
    /\ euid = "root"

\* C6: nb_sockets never exceeds MAX_LISTEN_SOCKETS and no entry is written
\* outside the listen_sockets table, for any number of listen ports;
\* nb_addresses never exceeds MAX_LISTEN_ADDRESSES.
C6_TableBounds ==
    /\ nb_sockets <= MAX_LISTEN_SOCKETS
    /\ ~oob
    /\ nb_addresses <= MAX_LISTEN_ADDRESSES

\* C7: a call of Sys_DeclareListenAddress made with fewer than
\* MAX_LISTEN_ADDRESSES names declared succeeds and stores the name behind
\* the earlier ones, which stay as they are; a call made with
\* MAX_LISTEN_ADDRESSES names declared fails and changes neither the count
\* nor the contents of the registry.
C7_DeclareAppendsOrFails ==
    [][last_call' = "Sys_DeclareListenAddress" =>
          IF nb_addresses < MAX_LISTEN_ADDRESSES
          THEN /\ ret' = TRUE
               /\ nb_addresses' = nb_addresses + 1
               /\ listen_addresses'[nb_addresses].local_addr_name = last_arg'
               /\ \A j \in 0..(nb_addresses - 1) :
                     listen_addresses'[j] = listen_addresses[j]
          ELSE /\ ret' = FALSE
               /\ nb_addresses' = MAX_LISTEN_ADDRESSES
               /\ listen_addresses' = listen_addresses]_vars

C7_Witness ==
    /\ last_call = "Sys_DeclareListenAddress"
    /\ ret = FALSE
    /\ nb_addresses = MAX_LISTEN_ADDRESSES
    /\ listen_addresses[0].local_addr_name = NamePlain
    /\ listen_addresses[1].local_addr_name = NameBracket

\* C8: with an empty registry a successful Sys_ResolveListenAddresses over
\* p ports leaves exactly 2*p entries: the IPv4 wildcard of every port in
\* port order, then the IPv6 wildcard of every port in port order, each
\* optional and without a source name.
C8_WildcardPlan ==
    (ResolveSucceeded /\ nb_addresses = 0) =>
        LET p == Len(listen_ports)
        IN  /\ nb_sockets = 2 * p
            /\ \A j \in 1..p :
                  /\ listen_sockets[j - 1] =
                       [ZeroSocket EXCEPT
                          !.local_addr = [ss_family |-> AF_INET, host |-> NULL,
                                          port |-> listen_ports[j]],
                          !.local_addr_len = 16,
                          !.optional = TRUE]
                  /\ listen_sockets[p + j - 1] =
                       [ZeroSocket EXCEPT
                          !.local_addr = [ss_family |-> AF_INET6, host |-> NULL,
                                          port |-> listen_ports[j]],
                          !.local_addr_len = 28,
                          !.optional = TRUE]

C8_Witness ==
    /\ ResolveSucceeded
    /\ nb_addresses = 0
    /\ Len(listen_ports) = 2
    /\ nb_sockets = 4
    /\ listen_sockets[1].local_addr.port = "27901"

\* The host part of each address token of the model
ExpectedHost(name) ==
    IF name = NamePlain THEN <<"h">>
    ELSE IF name = NameBracket THEN <<"a">>
    ELSE IF name = NameHostPort THEN <<"g">>
    ELSE <<>>

\* C9: with a declared addresses a successful Sys_ResolveListenAddresses
\* over p ports leaves exactly a*p entries, entry i*p + j being declared
\* address i with port j; every entry is not optional and carries the
\* declared name and its host part without the port.
C9_DeclaredPlan ==
    (ResolveSucceeded /\ nb_addresses > 0) =>
        LET p == Len(listen_ports)
        IN  /\ nb_sockets = nb_addresses * p
            /\ \A i \in 0..(nb_addresses - 1) : \A j \in 1..p :
                  LET e == listen_sockets[i * p + j - 1]
                      name == listen_addresses[i].local_addr_name
                  IN  /\ e.local_addr_name = name
                      /\ e.local_addr_name_no_port = ExpectedHost(name)
                      /\ e.local_addr.host = ExpectedHost(name)
                      /\ e.local_addr.port = listen_ports[j]
                      /\ e.local_addr.ss_family \in {AF_INET, AF_INET6}
                      /\ e.optional = FALSE

C9_Witness ==
    /\ ResolveSucceeded
    /\ nb_addresses = 2
    /\ Len(listen_ports) = 2
    /\ listen_sockets[3].local_addr_name = NameHostPort
    /\ listen_sockets[3].local_addr.port = "27901"
    /\ listen_sockets[0].local_addr_name = NameBracket

\* C10: when Sys_CreateListenSockets returns success every entry of
\* listen_sockets[0 .. nb_sockets) records an open socket of the run that
\* was created for the entry's family and bound to the entry's address,
\* with IPV6_V6ONLY set before the bind if the family is IPv6; and whatever
\* the result, a handle is recorded only after the bind of that socket to
\* that entry succeeded.
C10_HandedOffSocketsConfigured ==
    CreateReturned =>
        /\ ret = TRUE =>
              \A j \in 0..(nb_sockets - 1) :
                  LET e == listen_sockets[j]
                  IN  /\ e.socket \in created
                      /\ fds[e.socket].kind = "sock"
                      /\ fds[e.socket].family = e.local_addr.ss_family
                      /\ fds[e.socket].bound = e.local_addr
                      /\ e.local_addr.ss_family = AF_INET6 => fds[e.socket].v6only
                      /\ \A k \in 0..(nb_sockets - 1) :
                            k # j => listen_sockets[k].socket # e.socket
        /\ \A k \in 1..Len(events) :
              events[k].call = "record" =>
                  /\ k > 1
                  /\ events[k - 1].call = "bind"
                  /\ events[k - 1].res = "ok"
                  /\ events[k - 1].sock = events[k].sock
                  /\ events[k - 1].addr = events[k].addr
                  /\ events[k].addr.ss_family = AF_INET6 =>
                        /\ k > 2
                        /\ events[k - 2] = [events[k] EXCEPT !.call = "setsockopt"]

C10_Witness ==
    /\ CreateReturned
    /\ ret = TRUE
    /\ nb_sockets = 4
    /\ Len(dropped) = 0
    /\ listen_sockets[0].local_addr.ss_family = AF_INET6
    /\ listen_sockets[2].local_addr.ss_family = AF_INET
    /\ fds[listen_sockets[1].socket].v6only
    /\ fds[listen_sockets[3].socket].bound.port = "27901"

SecurityInitStep == pc = "bound" /\ last_call' = "Sys_SecurityInit"

\* C11: without superuser privileges Sys_SecurityInit returns success and
\* changes nothing of the process (no chroot, no identity change, no handle
\* opened), whether or not the daemon was requested.
C11_NoOpWithoutSuperuser ==
    [][(SecurityInitStep /\ euid # "root") =>
          /\ ret' = TRUE
          /\ UNCHANGED <<fds, null_device, euid, egid, root_dir, cwd,
                         daemon_state>>]_vars

\* C11 (amended): without superuser privileges Sys_SecurityInit makes no
\* chroot, chdir or identity change; if the daemon was not requested it
\* returns success and changes nothing; if the daemon was requested it
\* opens the null device and returns success with that one new handle, or
\* returns failure with no handle when the device cannot be opened.
C11_NoOpUnlessDaemonRequested ==
    [][(SecurityInitStep /\ euid # "root") =>
          /\ UNCHANGED <<euid, egid, root_dir, cwd, daemon_state>>
          /\ IF daemon_state # DAEMON_STATE_REQUEST
             THEN ret' = TRUE /\ UNCHANGED <<fds, null_device>>
             ELSE IF ret'
             THEN /\ null_device' \in 3..MaxFd
                  /\ fds[null_device'].kind = "closed"
                  /\ fds' = [fds EXCEPT ![null_device'] = NullFd]
             ELSE null_device' = -1 /\ UNCHANGED fds]_vars

C11_Witness ==
    /\ last_call = "Sys_SecurityInit"
    /\ euid = "user"
    /\ egid = "user"
    /\ root_dir = "/"
    /\ daemon_state = DAEMON_STATE_REQUEST
    /\ ret = TRUE
    /\ null_device # -1
    /\ fds[null_device].kind = "null"

\* The daemon option was given: the request stands, or daemon() was called
DaemonWasRequested ==
    \/ daemon_state = DAEMON_STATE_REQUEST
    \/ \E k \in 1..Len(syscalls) : syscalls[k].call = "daemon"

\* C12: with the daemon requested the null device is opened by
\* Sys_UnsecureInit: once it has returned success the handle is open.
C12_NullDeviceOpenedInUnsecureInit ==
    (last_call = "Sys_UnsecureInit" /\ ret = TRUE
        /\ daemon_state = DAEMON_STATE_REQUEST) =>
        /\ null_device # -1
        /\ fds[null_device].kind = "null"

\* C12 (amended): with the daemon requested the null device is opened by
\* Sys_SecurityInit as its first call, not by Sys_UnsecureInit; a failed
\* open makes Sys_SecurityInit fail before any lookup, chroot, chdir or
\* identity change, and every such call is made with the handle open.
C12_NullDeviceOpenedBeforeChroot ==
    /\ last_call = "Sys_UnsecureInit" => null_device = -1 /\ syscalls = <<>>
    /\ (DaemonWasRequested /\ Len(syscalls) > 0) =>
          /\ syscalls[1].call = "open"
          /\ syscalls[1].res = "fail" =>
                /\ Len(syscalls) = 1
                /\ ret = FALSE
                /\ pc = "failed"
                /\ null_device = -1
                /\ root_dir = "/"
                /\ cwd = "start"
                /\ euid \in {"root", "user"}
                /\ egid = euid
          /\ (syscalls[1].res = "ok" /\ last_call = "Sys_SecurityInit") =>
                /\ null_device \in 3..MaxFd
                /\ fds[null_device].kind = "null"
          /\ \A k \in 1..Len(syscalls) :
                syscalls[k].call \in {"getpwnam", "chroot", "chdir", "setgid", "setuid"}
                    => k > 1 /\ syscalls[1] = Call("open", "ok")

C12_Witness ==
    /\ last_call = "Sys_SecurityInit"
    /\ daemon_state = DAEMON_STATE_REQUEST
    /\ ret = TRUE
    /\ syscalls[1] = Call("open", "ok")
    /\ root_dir = jail_path
    /\ euid = low_priv_user
    /\ fds[null_device].kind = "null"

\* C13: daemon_state changes only from Disabled to Requested, from
\* Requested to Active and from Requested to Disabled: by the daemon
\* option, by a successful and by a failed daemonization of Sys_SecureInit
\* respectively; Active is never left.
C13_DaemonStateTransitions ==
    [][daemon_state' # daemon_state =>
          \/ /\ daemon_state = DAEMON_STATE_NO
             /\ daemon_state' = DAEMON_STATE_REQUEST
             /\ last_call' = "Sys_Cmdline_Option"
          \/ /\ daemon_state = DAEMON_STATE_REQUEST
             /\ daemon_state' = DAEMON_STATE_EFFECTIVE
             /\ last_call' = "Sys_SecureInit"
             /\ ret' = TRUE
          \/ /\ daemon_state = DAEMON_STATE_REQUEST
             /\ daemon_state' = DAEMON_STATE_NO
             /\ last_call' = "Sys_SecureInit"
             /\ ret' = FALSE]_vars

C13_Witness ==
    /\ last_call = "Sys_SecureInit"
    /\ daemon_state = DAEMON_STATE_EFFECTIVE
    /\ pc = "running"
    /\ syscalls[Len(syscalls)] = Call("close", "ok")

\* Sys_SecureInit was called with the daemon requested and daemon() failed
DaemonizeFailedStep ==
    /\ pc = "secured"
    /\ last_call' = "Sys_SecureInit"
    /\ daemon_state = DAEMON_STATE_REQUEST
    /\ syscalls' = Append(syscalls, Call("daemon", "fail"))

\* C14: when the detachment of Sys_SecureInit fails with the daemon
\* requested, the function returns failure, daemon_state becomes Disabled
\* and standard input, output and error are what they were before.
C14_DaemonizeFailureLeavesStreams ==
    [][DaemonizeFailedStep =>
          /\ ret' = FALSE
          /\ daemon_state' = DAEMON_STATE_NO
          /\ fds'[STDIN_FILENO] = fds[STDIN_FILENO]
          /\ fds'[STDOUT_FILENO] = fds[STDOUT_FILENO]
          /\ fds'[STDERR_FILENO] = fds[STDERR_FILENO]
          /\ fds'[STDIN_FILENO].kind # "null"
          /\ fds'[STDOUT_FILENO].kind # "null"
          /\ fds'[STDERR_FILENO].kind # "null"]_vars

C14_Witness ==
    /\ last_call = "Sys_SecureInit"
    /\ ret = FALSE
    /\ syscalls[Len(syscalls)] = Call("daemon", "fail")
    /\ daemon_state = DAEMON_STATE_NO
    /\ fds[STDIN_FILENO].kind = "tty"
    /\ fds[STDERR_FILENO].kind = "tty"

\* C15: with an empty registry Sys_ResolveListenAddresses never returns
\* failure: a failed lookup for a synthesized wildcard entry does not make
\* the resolution fail.
C15_WildcardResolutionNeverFails ==
    (last_call = "Sys_ResolveListenAddresses" /\ nb_addresses = 0
        /\ pc # "crashed") =>
        ret = TRUE

\* Positions of character c in token t
Positions(t, c) == {i \in 1..Len(t) : t[i] = c}

\* Least element of a non-empty set of numbers
Least(S) == CHOOSE x \in S : \A y \in S : x <= y

Bracketed(t) == Len(t) > 0 /\ t[1] = "["

\* A bracketed token without "]", or with something else than ":" or the
\* end of the token behind the first "]"
MalformedBracket(t) ==
    /\ Bracketed(t)
    /\ \/ Positions(t, "]") = {}
       \/ LET b == Least(Positions(t, "]"))
          IN  b < Len(t) /\ t[b + 1] # ":"

ExpectedTokenHost(t) ==
    IF Bracketed(t) THEN SubSeq(t, 2, Least(Positions(t, "]")) - 1)
    ELSE IF Cardinality(Positions(t, ":")) = 1
    THEN SubSeq(t, 1, Least(Positions(t, ":")) - 1)
    ELSE t

ExpectedTokenHint(t) ==
    IF Bracketed(t) \/ Cardinality(Positions(t, ":")) >= 2 THEN AF_INET6
    ELSE AF_UNSPEC

\* C16: Sys_StringToSockaddr rejects a token starting with "[" that has no
\* "]" or has neither ":" nor the end behind its first "]"; otherwise it
\* looks up, for a token starting with "[", the text between "[" and the
\* first "]" with hint IPv6; for a token without ":", the whole token with
\* no hint; for a token with one ":", the text before it with no hint; for
\* a token with two or more ":", the whole token with hint IPv6.
C16_TokenScan ==
    pc = "parsed" =>
        IF MalformedBracket(last_arg)
        THEN ret = FALSE /\ events = <<>>
                /\ listen_sockets[0].local_addr_name_no_port = NULL
        ELSE /\ Len(events) = 1
             /\ events[1].addr_name = ExpectedTokenHost(last_arg)
             /\ events[1].hint = ExpectedTokenHint(last_arg)
             /\ listen_sockets[0].local_addr_name_no_port = ExpectedTokenHost(last_arg)
             /\ ret = (events[1].res # "fail")
             /\ ret => listen_sockets[0].local_addr.host = ExpectedTokenHost(last_arg)

C16_Witness ==
    /\ pc = "parsed"
    /\ last_arg = <<"a", ":", "a", ":">>
    /\ ret = TRUE
    /\ events[1].hint = AF_INET6
    /\ events[1].addr_name = <<"a", ":", "a", ":">>

\* The text behind the colon that separates host and port, for a bracketed
\* token "[host]:port" and a one-colon token "host:port"
HasPortSuffix(t) ==
    /\ ~MalformedBracket(t)
    /\ IF Bracketed(t) THEN Least(Positions(t, "]")) + 1 < Len(t)
       ELSE /\ Cardinality(Positions(t, ":")) = 1
            /\ Least(Positions(t, ":")) < Len(t)

PortSuffix(t) ==
    IF Bracketed(t) THEN SubSeq(t, Least(Positions(t, "]")) + 2, Len(t))
    ELSE SubSeq(t, Least(Positions(t, ":")) + 1, Len(t))

\* C17: for a token with a port suffix ("[host]:port" or "host:port") the
\* port that Sys_StringToSockaddr resolves is the text behind the
\* separating colon.
C17_PortSuffixExtracted ==
    (pc = "parsed" /\ HasPortSuffix(last_arg)) =>
        /\ Len(events) = 1
        /\ events[1].port_name = PortSuffix(last_arg)
        /\ ret => listen_sockets[0].local_addr.port = PortSuffix(last_arg)

\* Descriptors other than the standard streams that refer to the null device
NullDeviceHandles == {fd \in 3..MaxFd : fds[fd].kind = "null"}

\* C18: whenever daemon_state is Active, standard input, output and error
\* all refer to the null device, the pre-opened handle is closed, and the
\* detachment and the three redirections were made before, in this order.
C18_ActiveMeansRedirected ==
    daemon_state = DAEMON_STATE_EFFECTIVE =>
        /\ fds[STDIN_FILENO].kind = "null"
        /\ fds[STDOUT_FILENO].kind = "null"
        /\ fds[STDERR_FILENO].kind = "null"
        /\ null_device = -1
        /\ NullDeviceHandles = {}
        /\ last_call = "Sys_SecureInit"
        /\ Len(syscalls) >= 5
        /\ SubSeq(syscalls, Len(syscalls) - 4, Len(syscalls)) =
              <<Call("daemon", "ok"), Call("dup2", "ok"), Call("dup2", "ok"),
                Call("dup2", "ok"), Call("close", "ok")>>

C18_Witness ==
    /\ daemon_state = DAEMON_STATE_EFFECTIVE
    /\ fds[STDIN_FILENO].kind = "null"
    /\ fds[STDERR_FILENO].kind = "null"
    /\ euid = low_priv_user
    /\ nb_sockets = 2

\* C19: once Sys_SecureInit has returned, with success or failure, and
\* once Sys_SecurityInit has returned failure, no null-device handle
\* opened by these functions is still open.
C19_NullDeviceClosedAfterwards ==
    (\/ (last_call = "Sys_SecureInit" /\ pc # "crashed")
     \/ (last_call = "Sys_SecurityInit" /\ ret = FALSE)) =>
        /\ null_device = -1
        /\ NullDeviceHandles = {}

\* C20: the rollback of Sys_CreateListenSockets passes to close() only
\* descriptors that socket() returned in the same run.
C20_RollbackClosesOnlyOwnSockets ==
    CreateReturned =>
        \A k \in 1..Len(close_calls) : close_calls[k] \in created

\* C21: when Sys_CreateListenSockets returns success after a successful
\* Sys_ResolveListenAddresses over at least one listen port, at least one
\* socket is bound: nb_sockets >= 1 and entry 0 holds a bound socket of
\* the run, whatever families socket() refuses on optional entries.
C21_SuccessMeansListening ==
    (CreateReturned /\ ret = TRUE /\ Len(listen_ports) >= 1) =>
        /\ nb_sockets >= 1
        /\ listen_sockets[0].socket \in created
        /\ fds[listen_sockets[0].socket].kind = "sock"

\* The step in which Sys_SecureInit, called after a successful
\* Sys_SecurityInit, sees daemon_state Requested and daemon (0, 1) succeeds
DaemonizeSucceededStep ==
    /\ pc = "secured"
    /\ last_call = "Sys_SecurityInit"
    /\ ret = TRUE
    /\ last_call' = "Sys_SecureInit"
    /\ daemon_state = DAEMON_STATE_REQUEST
    /\ pc' # "failed"

\* C22: in the bootstrap order (daemon option parsed before
\* Sys_SecurityInit, Sys_SecurityInit successful before Sys_SecureInit),
\* whenever Sys_SecureInit sees daemon_state Requested and the detachment
\* succeeds, null_device is an open handle on the null device and the
\* assertion null_device != -1 does not fail.
C22_NullDeviceOpenAtAssert ==
    [][DaemonizeSucceededStep =>
          /\ null_device # -1
          /\ fds[null_device].kind = "null"
          /\ pc' = "running"]_vars

C22_Witness ==
    /\ last_call = "Sys_SecureInit"
    /\ pc = "running"
    /\ daemon_state = DAEMON_STATE_EFFECTIVE
    /\ Call("open", "ok") \in {syscalls[k] : k \in 1..Len(syscalls)}
    /\ fds[STDOUT_FILENO].kind = "null"
    /\ euid = low_priv_user

====
